---------------------------- MODULE Spec2Model ----------------------------
(***************************************************************************)
(* A model of the MCP tool server of app/[transport]/route.ts: the startup *)
(* schema load, the module-level schema mapping, and the five tool         *)
(* handlers (echo, calculate, convert, format-date, nl-to-sql).            *)
(*                                                                         *)
(* JavaScript strings that the code takes apart (file names, expressions,  *)
(* dates, format patterns) are sequences of one-character strings.  Fixed  *)
(* message texts are kept as whole strings; a text built from a template   *)
(* is a record of the template and its arguments.                          *)
(***************************************************************************)
EXTENDS Integers, Sequences, FiniteSets, TLC

(***************************************************************************)
(* Bounds of the model.                                                    *)
(***************************************************************************)
MaxNameParts == 3
MaxDirFiles == 2
MaxCalls == 2

VARIABLES
    GEMINI_API_KEY,   \* module constant of line 9: "" when the variable is unset
    dirFiles,         \* what fs.readdir yields: the directory's file names, in order
    readdirFails,     \* whether fs.readdir rejects
    unreadable,       \* the files for which fs.readFile rejects
    loadPc,           \* position of loadDatabaseSchemas() and of its .then callback
    loadIdx,          \* index in schemaFiles of the file being read
    schemas,          \* the local mapping loadDatabaseSchemas builds
    loadResult,       \* the value the promise of loadDatabaseSchemas resolves with
    loadFailed,       \* history: the catch block of loadDatabaseSchemas ran
    readOk,           \* history: the files whose fs.readFile resolved
    databaseSchemas,  \* the module-level mapping of line 39
    storeCount,       \* history: number of assignments to databaseSchemas after line 39
    calls,            \* the nl-to-sql invocations, each with its position in the handler
    remoteFailed,     \* history: some nl-to-sql invocation has ended in the catch of line 217
    input,            \* the arguments of the invocation a single-tool specification applies
    lastResult        \* what the last echo, calculate, convert or format-date returned

loaderVars == <<dirFiles, readdirFails, unreadable, loadPc, loadIdx, schemas,
                loadResult, loadFailed, readOk, databaseSchemas, storeCount>>

serverVars == <<calls, remoteFailed, input, lastResult>>

vars == <<GEMINI_API_KEY, loaderVars, serverVars>>

(***************************************************************************)
(* Strings as sequences of characters.                                     *)
(***************************************************************************)
RECURSIVE Flatten(_)
Flatten(ss) == IF ss = <<>> THEN <<>> ELSE Head(ss) \o Flatten(Tail(ss))

SeqsUpTo(S, n) == UNION { [1..k -> S] : k \in 0..n }

StartsWithAt(s, pat, i) ==
    /\ i + Len(pat) - 1 <= Len(s)
    /\ \A k \in 1..Len(pat) : s[i + k - 1] = pat[k]

\* String.prototype.endsWith
EndsWith(s, suf) ==
    /\ Len(suf) <= Len(s)
    /\ StartsWithAt(s, suf, Len(s) - Len(suf) + 1)

\* String.prototype.indexOf, 1-based; 0 when pat does not occur
IndexOf(s, pat) ==
    LET hits == { i \in 1..(Len(s) + 1) : StartsWithAt(s, pat, i) }
    IN  IF hits = {} THEN 0 ELSE CHOOSE i \in hits : \A j \in hits : i <= j

\* String.prototype.replace with a string pattern: the first occurrence only
ReplaceFirst(s, pat, rep) ==
    LET i == IndexOf(s, pat)
    IN  IF i = 0 THEN s
        ELSE SubSeq(s, 1, i - 1) \o rep \o SubSeq(s, i + Len(pat), Len(s))

\* String.prototype.replace with a global regex of literal characters
RECURSIVE ReplaceAll(_, _, _)
ReplaceAll(s, pat, rep) ==
    LET i == IndexOf(s, pat)
    IN  IF i = 0 \/ pat = <<>> THEN s
        ELSE SubSeq(s, 1, i - 1) \o rep
             \o ReplaceAll(SubSeq(s, i + Len(pat), Len(s)), pat, rep)

(***************************************************************************)
(* Record<string, string>: entries in insertion order; assigning to a key  *)
(* that exists overwrites its value in place.                              *)
(***************************************************************************)
EmptyRecord == <<>>

Keys(m) == { m[i].key : i \in 1..Len(m) }

HasKey(m, k) == k \in Keys(m)

Put(m, k, v) ==
    IF HasKey(m, k)
    THEN [i \in 1..Len(m) |-> IF m[i].key = k THEN [key |-> k, value |-> v] ELSE m[i]]
    ELSE Append(m, [key |-> k, value |-> v])

\* Object.keys(m).length
Size(m) == Len(m)

(***************************************************************************)
(* The schema directory.                                                   *)
(***************************************************************************)
SqlExt == <<".", "s", "q", "l">>

NameParts == { <<"a">>, SqlExt }

FileNames == { Flatten(ps) : ps \in (SeqsUpTo(NameParts, MaxNameParts) \ {<<>>}) }

IsInjective(s) == \A i, j \in 1..Len(s) : s[i] = s[j] => i = j

Directories == { d \in SeqsUpTo(FileNames, MaxDirFiles) : IsInjective(d) }

\* what fs.readFile(filePath, 'utf-8') yields for a readable file
FileContent(file) == <<"content of">> \o file

(***************************************************************************)
(* loadDatabaseSchemas, lines 16-36, and its caller, lines 42-47.          *)
(***************************************************************************)
IsDefinitionFile(file) == EndsWith(file, SqlExt)

TableName(file) == ReplaceFirst(file, SqlExt, <<>>)

\* the for loop runs on without suspending until a file passes line 23
NextDefinitionFile(files, from) ==
    LET later == { j \in from..Len(files) : IsDefinitionFile(files[j]) }
    IN  IF later = {} THEN Len(files) + 1
        ELSE CHOOSE j \in later : \A k \in later : j <= k

\* a catch block that returns what the loop had built when the read failed
LoadCatchKeepsPartial(built) == built

\* lines 32-35
LoadCatch(built) == EmptyRecord

\* line 19 settles; the loop runs to its first readFile or to the return of line 31
LoadReaddirSettled ==
    /\ loadPc = "readdir"
    /\ IF readdirFails
       THEN /\ loadPc' = "resolved"
            /\ loadResult' = LoadCatch(schemas)
            /\ loadFailed' = TRUE
            /\ UNCHANGED loadIdx
       ELSE LET first == NextDefinitionFile(dirFiles, 1)
            IN  /\ loadIdx' = first
                /\ IF first > Len(dirFiles)
                   THEN loadPc' = "resolved" /\ loadResult' = schemas
                   ELSE loadPc' = "readFile" /\ UNCHANGED loadResult
                /\ UNCHANGED loadFailed
    /\ UNCHANGED <<dirFiles, readdirFails, unreadable, schemas, readOk,
                   databaseSchemas, storeCount>>
    /\ UNCHANGED <<GEMINI_API_KEY, serverVars>>

\* line 26 settles; line 27, then the loop runs to the next readFile or to line 31
LoadReadFileSettled ==
    /\ loadPc = "readFile"
    /\ LET file == dirFiles[loadIdx]
       IN  IF file \in unreadable
           THEN /\ loadPc' = "resolved"
                /\ loadResult' = LoadCatch(schemas)
                /\ loadFailed' = TRUE
                /\ UNCHANGED <<loadIdx, schemas, readOk>>
           ELSE LET built == Put(schemas, TableName(file), FileContent(file))
                    next == NextDefinitionFile(dirFiles, loadIdx + 1)
                IN  /\ schemas' = built
                    /\ readOk' = readOk \cup {file}
                    /\ loadIdx' = next
                    /\ IF next > Len(dirFiles)
                       THEN loadPc' = "resolved" /\ loadResult' = built
                       ELSE loadPc' = "readFile" /\ UNCHANGED loadResult
                    /\ UNCHANGED loadFailed
    /\ UNCHANGED <<dirFiles, readdirFails, unreadable, databaseSchemas, storeCount>>
    /\ UNCHANGED <<GEMINI_API_KEY, serverVars>>

\* lines 42-45: the .then callback
LoadThen ==
    /\ loadPc = "resolved"
    /\ loadPc' = "stored"
    /\ databaseSchemas' = loadResult
    /\ storeCount' = storeCount + 1
    /\ UNCHANGED <<dirFiles, readdirFails, unreadable, loadIdx, schemas,
                   loadResult, loadFailed, readOk>>
    /\ UNCHANGED <<GEMINI_API_KEY, serverVars>>

\* the module's top level has run: lines 9-47 up to the first suspension
InitLoader(dirs) ==
    /\ dirFiles \in dirs
    /\ readdirFails \in BOOLEAN
    /\ unreadable \in SUBSET { dirFiles[i] : i \in 1..Len(dirFiles) }
    /\ readdirFails => unreadable = {}
    /\ loadPc = "readdir"
    /\ loadIdx = 0
    /\ schemas = EmptyRecord
    /\ loadResult = EmptyRecord
    /\ loadFailed = FALSE
    /\ readOk = {}
    /\ databaseSchemas = EmptyRecord
    /\ storeCount = 0

(***************************************************************************)
(* Tool results: the content array of a handler's return value.  A text    *)
(* built from a template literal is a record of the template and the       *)
(* values substituted into it.                                             *)
(***************************************************************************)
TextResult(texts) == [fault |-> FALSE, content |-> texts]

(***************************************************************************)
(* echo, lines 74-76.                                                      *)
(***************************************************************************)
EchoHandler(message) ==
    TextResult(<<[template |-> "Tool echo: ${message}", message |-> message]>>)

(***************************************************************************)
(* convert, lines 108-136.  conversions is an object literal, so a lookup  *)
(* conversions[fromUnit] that finds no own property goes on to             *)
(* Object.prototype, and a lookup on what it finds goes on to that value's *)
(* prototype chain.  JavaScript values are records tagged by t.            *)
(***************************************************************************)
Undefined == [t |-> "undefined"]

\* lines 111-116: the own properties of conversions and of its inner objects
SupportedPairs ==
    { <<"celsius", "fahrenheit">>, <<"fahrenheit", "celsius">>,
      <<"kilometers", "miles">>, <<"miles", "kilometers">>,
      <<"kilograms", "pounds">>, <<"pounds", "kilograms">> }

OwnFromUnits == { p[1] : p \in SupportedPairs }

\* properties every ordinary object inherits from Object.prototype (a selection)
ObjectPrototypeFunctions == { "constructor", "toString", "valueOf", "hasOwnProperty" }

\* properties a function has of its own or inherits from Function.prototype (a selection)
FunctionOwnStrings == { "name" }
FunctionOwnNumbers == { "length" }
FunctionPrototypeFunctions == { "call", "apply", "bind" }

\* the built-in function a key names: constructor is Object on an ordinary object
\* and Function on a function
InheritedFunction(key, ofFunction) ==
    [t |-> "builtin",
     name |-> IF key = "constructor"
              THEN (IF ofFunction THEN "Function" ELSE "Object")
              ELSE key]

\* the length property of the built-in functions the model names
BuiltinLength(name) ==
    IF name \in { "Object", "Function", "hasOwnProperty", "call", "bind" } THEN 1
    ELSE IF name = "apply" THEN 2
    ELSE 0

\* obj[key] for the values the handler can hold
GetProperty(obj, key) ==
    CASE obj.t = "conversions" ->
           IF key \in OwnFromUnits THEN [t |-> "inner", from |-> key]
           ELSE IF key \in ObjectPrototypeFunctions THEN InheritedFunction(key, FALSE)
           ELSE IF key = "__proto__" THEN [t |-> "prototype"]
           ELSE Undefined
      [] obj.t = "inner" ->
           IF <<obj.from, key>> \in SupportedPairs
           THEN [t |-> "conversion", from |-> obj.from, to |-> key]
           ELSE IF key \in ObjectPrototypeFunctions THEN InheritedFunction(key, FALSE)
           ELSE IF key = "__proto__" THEN [t |-> "prototype"]
           ELSE Undefined
      [] obj.t = "prototype" ->
           IF key \in ObjectPrototypeFunctions THEN InheritedFunction(key, FALSE)
           ELSE IF key = "__proto__" THEN [t |-> "null"]
           ELSE Undefined
      [] obj.t = "builtin" ->
           IF key \in FunctionOwnStrings THEN [t |-> "string", nonEmpty |-> TRUE]
           ELSE IF key \in FunctionOwnNumbers
                THEN [t |-> "number", value |-> BuiltinLength(obj.name)]
           ELSE IF key \in FunctionPrototypeFunctions \cup ObjectPrototypeFunctions
                THEN InheritedFunction(key, TRUE)
           ELSE IF key = "__proto__" THEN [t |-> "functionPrototype"]
           ELSE Undefined
      [] OTHER -> Undefined

\* ToBoolean
Truthy(v) ==
    CASE v.t \in { "undefined", "null" } -> FALSE
      [] v.t = "number" -> v.value # 0
      [] v.t = "string" -> v.nonEmpty
      [] OTHER -> TRUE

IsCallable(v) == v.t \in { "conversion", "builtin" }

\* n / d rounded to the nearest integer, halves away from zero
RoundDiv(n, d) ==
    IF n >= 0 THEN (2 * n + d) \div (2 * d)
    ELSE -((2 * (-n) + d) \div (2 * d))

\* lines 111-116 and 122: the formula's value in ten-thousandths, as toFixed(4) rounds it
ConvertFixed4(from, to, value) ==
    CASE from = "celsius" /\ to = "fahrenheit" -> RoundDiv(value * 90000, 5) + 320000
      [] from = "fahrenheit" /\ to = "celsius" -> RoundDiv((value - 32) * 50000, 9)
      [] from = "kilometers" /\ to = "miles" -> RoundDiv(value * 621371, 100)
      [] from = "miles" /\ to = "kilometers" -> RoundDiv(value * 160934, 10)
      [] from = "kilograms" /\ to = "pounds" -> RoundDiv(value * 220462, 10)
      [] from = "pounds" /\ to = "kilograms" -> RoundDiv(value * 453592, 100)

\* lines 121-122: Number(receiver[toUnit](value)).toFixed(4) for a callable fn.
\* None of the built-ins of the model throws when called as a method of the
\* value it was read from.
CallFormatted(receiver, fn, value) ==
    LET Fixed(n) == [t |-> "fixed4", tenThousandths |-> n * 10000]
        NaN == [t |-> "NaN"]
    IN  CASE fn.t = "conversion" ->
               [t |-> "fixed4", tenThousandths |-> ConvertFixed4(fn.from, fn.to, value)]
          \* Object(value) is a Number object, and Number() of it is value again
          [] fn.t = "builtin" /\ fn.name = "Object" -> Fixed(value)
          \* hasOwnProperty(value) is false, and Number(false) is 0
          [] fn.t = "builtin" /\ fn.name = "hasOwnProperty" -> Fixed(0)
          \* receiver.call(value), receiver.apply(value): the receiver, a built-in
          \* function, runs with this = value and no argument
          [] fn.t = "builtin" /\ fn.name \in { "call", "apply" } ->
               IF receiver.name = "valueOf" THEN Fixed(value)
               ELSE IF receiver.name = "hasOwnProperty" THEN Fixed(0)
               ELSE NaN
          \* Function, toString, valueOf, bind yield a function, a string or an
          \* object: Number() of it is NaN
          [] OTHER -> NaN

ConvertHandler(value, fromUnit, toUnit) ==
    LET conversions == [t |-> "conversions"]
        inner == GetProperty(conversions, fromUnit)
        fn == GetProperty(inner, toUnit)
    IN  IF Truthy(inner) /\ Truthy(fn)
        THEN IF IsCallable(fn)
             THEN TextResult(<<[template |-> "${value} ${fromUnit} = ${formatted} ${toUnit}",
                                value |-> value, fromUnit |-> fromUnit,
                                formatted |-> CallFormatted(inner, fn, value),
                                toUnit |-> toUnit]>>)
             ELSE TextResult(<<[template |-> "Error during conversion: ${errorMessage}",
                                errorMessage |-> "TypeError"]>>)
        ELSE TextResult(<<[template |-> "Error: Conversion from ${fromUnit} to ${toUnit} is not supported.",
                           fromUnit |-> fromUnit, toUnit |-> toUnit]>>)

(***************************************************************************)
(* Numbers and their decimal digits.                                       *)
(***************************************************************************)
DigitChars == <<"0", "1", "2", "3", "4", "5", "6", "7", "8", "9">>

IsDigit(c) == \E d \in 1..Len(DigitChars) : DigitChars[d] = c

DigitValue(c) == (CHOOSE d \in 1..Len(DigitChars) : DigitChars[d] = c) - 1

\* Number.prototype.toString of a natural number
RECURSIVE NatToString(_)
NatToString(n) ==
    IF n < 10 THEN <<DigitChars[n + 1]>>
    ELSE NatToString(n \div 10) \o <<DigitChars[(n % 10) + 1]>>

\* the value of a string of decimal digits
RECURSIVE DigitsValue(_)
DigitsValue(s) ==
    IF s = <<>> THEN 0
    ELSE 10 * DigitsValue(SubSeq(s, 1, Len(s) - 1)) + DigitValue(s[Len(s)])

AllDigits(s) == \A i \in 1..Len(s) : IsDigit(s[i])

\* String.prototype.padStart with a one-character filler
RECURSIVE PadStart(_, _, _)
PadStart(s, len, ch) == IF Len(s) >= len THEN s ELSE PadStart(<<ch>> \o s, len, ch)

(***************************************************************************)
(* calculate, lines 84-96.  eval() is modelled on the strings line 87 can  *)
(* hand it: sequences over the digits and . + - * / ( ).  A number is an   *)
(* exact fraction n/d (the rounding of doubles is not modelled), or one of *)
(* Infinity, -Infinity, NaN, -0.                                           *)
(***************************************************************************)
CalcAllowed == { "-", "(", ")", "*", "+", "/", "." } \cup { DigitChars[i] : i \in 1..Len(DigitChars) }

\* expression.replace(/[^-()*+/0-9.]/g, '')
RECURSIVE Sanitize(_)
Sanitize(s) ==
    IF s = <<>> THEN <<>>
    ELSE (IF Head(s) \in CalcAllowed THEN <<Head(s)>> ELSE <<>>) \o Sanitize(Tail(s))

RECURSIVE Gcd(_, _)
Gcd(a, b) == IF b = 0 THEN a ELSE Gcd(b, a % b)

Abs(n) == IF n < 0 THEN -n ELSE n

RECURSIVE Power(_, _)
Power(b, e) == IF e = 0 THEN 1 ELSE b * Power(b, e - 1)

\* the number n/d, in lowest terms
Q(n, d) ==
    LET sgn == IF d < 0 THEN -1 ELSE 1
        g == Gcd(Abs(n), Abs(d))
    IN  [t |-> "num", n |-> (sgn * n) \div g, d |-> (sgn * d) \div g, negz |-> FALSE]

NegZero == [t |-> "num", n |-> 0, d |-> 1, negz |-> TRUE]
NaN == [t |-> "nan"]
Inf(neg) == [t |-> "inf", neg |-> neg]
UndefinedValue == [t |-> "undefined"]
Thrown == [t |-> "throw"]
\* a double the model does not compute (a non-integer power)
SomeDouble == [t |-> "double"]

IsZero(v) == v.t = "num" /\ v.n = 0

\* the sign bit
Negative(v) ==
    CASE v.t = "num" -> v.n < 0 \/ v.negz
      [] v.t = "inf" -> v.neg
      [] OTHER -> FALSE

SignedZero(neg) == IF neg THEN NegZero ELSE Q(0, 1)

\* ToNumber of the values an expression can yield: a RegExp object and a string
\* that begins with the source of one are NaN
ToNumber(v) == IF v.t \in { "regex", "string", "undefined" } THEN NaN ELSE v

Negate(v) ==
    CASE v.t = "num" -> IF v.n = 0 THEN SignedZero(~v.negz) ELSE Q(-v.n, v.d)
      [] v.t = "inf" -> Inf(~v.neg)
      [] OTHER -> v

NumAdd(a, b) ==
    CASE a.t = "nan" \/ b.t = "nan" -> NaN
      [] a.t = "double" \/ b.t = "double" -> SomeDouble
      [] a.t = "inf" /\ b.t = "inf" -> IF a.neg = b.neg THEN a ELSE NaN
      [] a.t = "inf" -> a
      [] b.t = "inf" -> b
      [] OTHER ->
           LET n == a.n * b.d + b.n * a.d
           IN  IF n = 0 THEN SignedZero(IsZero(a) /\ IsZero(b) /\ a.negz /\ b.negz)
               ELSE Q(n, a.d * b.d)

NumMul(a, b) ==
    LET neg == Negative(a) # Negative(b)
    IN  CASE a.t = "nan" \/ b.t = "nan" -> NaN
          [] a.t = "double" \/ b.t = "double" -> SomeDouble
          [] a.t = "inf" \/ b.t = "inf" ->
               IF IsZero(a) \/ IsZero(b) THEN NaN ELSE Inf(neg)
          [] OTHER ->
               IF a.n * b.n = 0 THEN SignedZero(neg) ELSE Q(a.n * b.n, a.d * b.d)

NumDiv(a, b) ==
    LET neg == Negative(a) # Negative(b)
    IN  CASE a.t = "nan" \/ b.t = "nan" -> NaN
          [] a.t = "double" \/ b.t = "double" -> SomeDouble
          [] a.t = "inf" -> IF b.t = "inf" THEN NaN ELSE Inf(neg)
          [] b.t = "inf" -> SignedZero(neg)
          [] IsZero(b) -> IF IsZero(a) THEN NaN ELSE Inf(neg)
          [] OTHER -> IF a.n = 0 THEN SignedZero(neg) ELSE Q(a.n * b.d, a.d * b.n)

\* Number::exponentiate, computed for a finite base and an integer exponent
NumPow(a, b) ==
    CASE b.t = "nan" -> NaN
      [] IsZero(b) -> Q(1, 1)
      [] a.t = "nan" -> NaN
      [] a.t = "num" /\ b.t = "num" /\ b.d = 1 ->
           LET e == Abs(b.n)
               odd == e % 2 = 1
           IN  IF a.n = 0
               THEN (IF b.n > 0 THEN SignedZero(a.negz /\ odd) ELSE Inf(a.negz /\ odd))
               ELSE IF b.n > 0 THEN Q(Power(a.n, e), Power(a.d, e))
               ELSE Q(Power(a.d, e), Power(a.n, e))
      [] OTHER -> SomeDouble

\* the binary + of JavaScript: with a RegExp or a string operand it concatenates
JsAdd(a, b) ==
    IF a.t \in { "regex", "string" } \/ b.t \in { "regex", "string" }
    THEN [t |-> "string"]
    ELSE NumAdd(ToNumber(a), ToNumber(b))

(***************************************************************************)
(* The parse and evaluation of eval(): a Script that is empty or one       *)
(* expression statement.  Every parser takes the position of a token and   *)
(* returns the position of the token after what it read.                   *)
(***************************************************************************)
Fail == [ok |-> FALSE]

\* the character at p, "" past the end
At(s, p) == IF p >= 1 /\ p <= Len(s) THEN s[p] ELSE ""

\* the first position from p that holds no digit
RECURSIVE DigitRunEnd(_, _)
DigitRunEnd(s, p) == IF IsDigit(At(s, p)) THEN DigitRunEnd(s, p + 1) ELSE p

\* the position after the comments that start at p; 0 when a /* is never closed
RECURSIVE SkipComments(_, _)
SkipComments(s, p) ==
    IF At(s, p) = "/" /\ At(s, p + 1) = "/" THEN Len(s) + 1
    ELSE IF At(s, p) = "/" /\ At(s, p + 1) = "*"
    THEN LET closes == { i \in (p + 2)..Len(s) : At(s, i) = "*" /\ At(s, i + 1) = "/" }
         IN  IF closes = {} THEN 0
             ELSE SkipComments(s, (CHOOSE i \in closes : \A j \in closes : i <= j) + 2)
    ELSE p

\* a token with value v ended before position p
After(s, v, p) ==
    LET q == SkipComments(s, p)
    IN  IF q = 0 THEN Fail ELSE [ok |-> TRUE, v |-> v, pos |-> q]

\* NumericLiteral at p.  A literal 0 followed by digits is a legacy octal (or
\* non-octal decimal) literal: an early error in strict code
LexNumber(s, p, strict) ==
    LET e == DigitRunEnd(s, p)
        int == SubSeq(s, p, e - 1)
        legacy == Len(int) > 1 /\ int[1] = "0"
        octal == \A i \in 1..Len(int) : DigitValue(int[i]) < 8
        OctalValue[k \in 0..Len(int)] ==
            IF k = 0 THEN 0 ELSE 8 * OctalValue[k - 1] + DigitValue(int[k])
        f == IF At(s, e) = "." THEN DigitRunEnd(s, e + 1) ELSE e
        frac == SubSeq(s, e + 1, f - 1)
    IN  IF e = p /\ f = e + 1 THEN Fail                          \* a lone .
        ELSE IF legacy /\ strict THEN Fail
        ELSE IF legacy /\ octal THEN After(s, Q(OctalValue[Len(int)], 1), e)
        ELSE After(s, Q(DigitsValue(int \o frac), Power(10, Len(frac))), f)

\* the pattern of a regular expression literal over the allowed characters:
\* groups balance and every quantifier follows an atom
ValidPattern(body) ==
    LET Depth[k \in 0..Len(body)] ==
            IF k = 0 THEN 0
            ELSE Depth[k - 1] + (IF body[k] = "(" THEN 1 ELSE IF body[k] = ")" THEN -1 ELSE 0)
    IN  /\ \A k \in 1..Len(body) : Depth[k] >= 0
        /\ Depth[Len(body)] = 0
        /\ \A k \in 1..Len(body) :
             body[k] \in { "*", "+" } => k > 1 /\ body[k - 1] \notin { "(", "*", "+" }

\* RegularExpressionLiteral at p, where s[p] = "/" opens no comment.  A digit
\* after the closing / would be a flag, and no digit is one
LexRegex(s, p) ==
    LET closes == { i \in (p + 1)..Len(s) : s[i] = "/" }
        close == CHOOSE i \in closes : \A j \in closes : i <= j
    IN  IF closes = {} THEN Fail
        ELSE IF ~ValidPattern(SubSeq(s, p + 1, close - 1)) THEN Fail
        ELSE IF IsDigit(At(s, close + 1)) THEN Fail
        ELSE After(s, [t |-> "regex", source |-> SubSeq(s, p + 1, close - 1)], close + 1)

RECURSIVE ParseAdditive(_, _, _), AddLoop(_, _, _, _), ParseMultiplicative(_, _, _),
          MulLoop(_, _, _, _), ParseExponentiation(_, _, _), ParseUnary(_, _, _),
          ParsePrimary(_, _, _)

\* the ) that closes a parenthesized expression r
CloseParenthesis(s, r) ==
    IF r.ok /\ At(s, r.pos) = ")" THEN After(s, r.v, r.pos + 1) ELSE Fail

ParseParenthesized(s, open, strict) ==
    IF open.ok THEN CloseParenthesis(s, ParseAdditive(s, open.pos, strict)) ELSE Fail

\* PrimaryExpression: ( Expression ), a numeric literal, a regular expression literal
ParsePrimary(s, p, strict) ==
    CASE At(s, p) = "(" -> ParseParenthesized(s, After(s, UndefinedValue, p + 1), strict)
      [] IsDigit(At(s, p)) \/ At(s, p) = "." -> LexNumber(s, p, strict)
      [] At(s, p) = "/" -> LexRegex(s, p)
      [] OTHER -> Fail

\* the unary operator c applied to its operand r
ApplyUnary(c, r) ==
    IF r.ok
    THEN [ok |-> TRUE, pos |-> r.pos,
          v |-> IF c = "-" THEN Negate(ToNumber(r.v)) ELSE ToNumber(r.v)]
    ELSE Fail

ParseUnaryOperand(s, open, strict) ==
    IF ~open.ok THEN Fail
    ELSE IF At(s, open.pos) \in { "+", "-" } THEN ParseUnary(s, open.pos, strict)
    ELSE ParsePrimary(s, open.pos, strict)

\* UnaryExpression that starts with + or -.  ++ and -- are one token, and their
\* operand, never a reference here, makes them an early error
ParseUnary(s, p, strict) ==
    IF At(s, p + 1) = At(s, p) THEN Fail
    ELSE ApplyUnary(At(s, p), ParseUnaryOperand(s, After(s, UndefinedValue, p + 1), strict))

\* a unary expression r is no base of **
NoExponentAfter(s, r) ==
    IF r.ok /\ At(s, r.pos) = "*" /\ At(s, r.pos + 1) = "*" THEN Fail ELSE r

ApplyExponent(base, e) ==
    IF e.ok
    THEN [ok |-> TRUE, pos |-> e.pos, v |-> NumPow(ToNumber(base.v), ToNumber(e.v))]
    ELSE Fail

ParseExponent(s, base, open, strict) ==
    IF open.ok THEN ApplyExponent(base, ParseExponentiation(s, open.pos, strict)) ELSE Fail

\* the ** that may follow the base
ExponentAfter(s, base, strict) ==
    IF base.ok /\ At(s, base.pos) = "*" /\ At(s, base.pos + 1) = "*"
    THEN ParseExponent(s, base, After(s, UndefinedValue, base.pos + 2), strict)
    ELSE base

\* ExponentiationExpression: ** is right-associative and takes no unary
\* expression as its base
ParseExponentiation(s, p, strict) ==
    IF At(s, p) \in { "+", "-" }
    THEN NoExponentAfter(s, ParseUnary(s, p, strict))
    ELSE ExponentAfter(s, ParsePrimary(s, p, strict), strict)

ApplyMultiplicative(c, left, right) ==
    IF c = "*" THEN NumMul(ToNumber(left), ToNumber(right))
    ELSE NumDiv(ToNumber(left), ToNumber(right))

MulOperand(s, c, left, r, strict) ==
    IF r.ok THEN MulLoop(s, ApplyMultiplicative(c, left, r.v), r.pos, strict) ELSE Fail

MulRight(s, c, left, open, strict) ==
    IF open.ok
    THEN MulOperand(s, c, left, ParseExponentiation(s, open.pos, strict), strict)
    ELSE Fail

\* the * and / operators that follow the operand left, which ended before p
MulLoop(s, left, p, strict) ==
    IF At(s, p) \in { "*", "/" }
    THEN MulRight(s, At(s, p), left, After(s, UndefinedValue, p + 1), strict)
    ELSE [ok |-> TRUE, v |-> left, pos |-> p]

MulStart(s, r, strict) == IF r.ok THEN MulLoop(s, r.v, r.pos, strict) ELSE Fail

ParseMultiplicative(s, p, strict) == MulStart(s, ParseExponentiation(s, p, strict), strict)

ApplyAdditive(c, left, right) ==
    IF c = "+" THEN JsAdd(left, right)
    ELSE NumAdd(ToNumber(left), Negate(ToNumber(right)))

AddOperand(s, c, left, r, strict) ==
    IF r.ok THEN AddLoop(s, ApplyAdditive(c, left, r.v), r.pos, strict) ELSE Fail

AddRight(s, c, left, open, strict) ==
    IF open.ok
    THEN AddOperand(s, c, left, ParseMultiplicative(s, open.pos, strict), strict)
    ELSE Fail

\* the + and - operators that follow the operand left, which ended before p;
\* ++ and -- here are postfix operators on what is no reference: an early error
AddLoop(s, left, p, strict) ==
    IF At(s, p) \notin { "+", "-" } THEN [ok |-> TRUE, v |-> left, pos |-> p]
    ELSE IF At(s, p + 1) = At(s, p) THEN Fail
    ELSE AddRight(s, At(s, p), left, After(s, UndefinedValue, p + 1), strict)

AddStart(s, r, strict) == IF r.ok THEN AddLoop(s, r.v, r.pos, strict) ELSE Fail

ParseAdditive(s, p, strict) == AddStart(s, ParseMultiplicative(s, p, strict), strict)

\* the completion value of a script parsed as r
ScriptValue(s, r) == IF r.ok /\ r.pos > Len(s) THEN r.v ELSE Thrown

\* eval(s): the completion value of the script, undefined for an empty one;
\* Thrown for a SyntaxError, or the TypeError of calling a number
Eval(s, strict) ==
    IF SkipComments(s, 1) = 0 THEN Thrown
    ELSE IF SkipComments(s, 1) > Len(s) THEN UndefinedValue
    ELSE ScriptValue(s, ParseAdditive(s, SkipComments(s, 1), strict))

\* lines 84-96
CalculateReturn(expression, result) ==
    IF result.t = "throw"
    THEN TextResult(<<[template |-> "Error: Could not evaluate expression '${expression}'",
                       expression |-> expression]>>)
    ELSE TextResult(<<[template |-> "Result: ${result}", result |-> result]>>)

CalculateHandler(expression, strict) ==
    CalculateReturn(expression, Eval(Sanitize(expression), strict))

(***************************************************************************)
(* Date.  A time value is its calendar fields; the process runs in UTC, so *)
(* the local getters and toISOString read the same fields.                 *)
(***************************************************************************)
InvalidDate == [valid |-> FALSE]

NaNString == <<"N", "a", "N">>

\* an optional string argument that zod leaves undefined
Absent == [present |-> FALSE]

Given(s) == [present |-> TRUE, value |-> s]

\* the truthiness test of lines 149 and 150: undefined and "" are falsy
ArgTruthy(arg) == arg.present /\ arg.value # <<>>

\* new Date(string) for the ECMAScript date-time formats YYYY, YYYY-MM, YYYY-MM-DD,
\* YYYY-MM-DDTHH:mm and YYYY-MM-DDTHH:mm:ss; any other string of the model's
\* inputs (DateStrings) is one no engine parses
ParseDate(s) ==
    LET Field(i, n) == SubSeq(s, i, i + n - 1)
        Num(i, n) == DigitsValue(Field(i, n))
        shapeOk ==
            /\ Len(s) \in { 4, 7, 10, 16, 19 }
            /\ AllDigits(Field(1, 4))
            /\ Len(s) >= 7 => s[5] = "-" /\ AllDigits(Field(6, 2))
            /\ Len(s) >= 10 => s[8] = "-" /\ AllDigits(Field(9, 2))
            /\ Len(s) >= 16 => s[11] = "T" /\ AllDigits(Field(12, 2))
                               /\ s[14] = ":" /\ AllDigits(Field(15, 2))
            /\ Len(s) >= 19 => s[17] = ":" /\ AllDigits(Field(18, 2))
        month == IF Len(s) >= 7 THEN Num(6, 2) ELSE 1
        day == IF Len(s) >= 10 THEN Num(9, 2) ELSE 1
        hours == IF Len(s) >= 16 THEN Num(12, 2) ELSE 0
        minutes == IF Len(s) >= 16 THEN Num(15, 2) ELSE 0
        seconds == IF Len(s) >= 19 THEN Num(18, 2) ELSE 0
    IN  IF /\ shapeOk
           /\ month \in 1..12 /\ day \in 1..31
           /\ hours \in 0..23 /\ minutes \in 0..59 /\ seconds \in 0..59
        THEN [valid |-> TRUE, year |-> Num(1, 4), month |-> month, day |-> day,
              hours |-> hours, minutes |-> minutes, seconds |-> seconds]
        ELSE InvalidDate

\* n.toString().padStart(2, '0') of lines 52-56; NaN for an invalid date
Component(date, n) ==
    IF date.valid THEN PadStart(NatToString(n), 2, "0") ELSE NaNString

\* lines 50-65
formatDate(date, format) ==
    LET year == IF date.valid THEN NatToString(date.year) ELSE NaNString
        month == Component(date, IF date.valid THEN date.month ELSE 0)
        day == Component(date, IF date.valid THEN date.day ELSE 0)
        hours == Component(date, IF date.valid THEN date.hours ELSE 0)
        minutes == Component(date, IF date.valid THEN date.minutes ELSE 0)
        seconds == Component(date, IF date.valid THEN date.seconds ELSE 0)
        r1 == ReplaceAll(format, <<"Y", "Y", "Y", "Y">>, year)
        r2 == ReplaceAll(r1, <<"M", "M">>, month)
        r3 == ReplaceAll(r2, <<"D", "D">>, day)
        r4 == ReplaceAll(r3, <<"H", "H">>, hours)
        r5 == ReplaceAll(r4, <<"m", "m">>, minutes)
    IN  ReplaceAll(r5, <<"s", "s">>, seconds)

\* Date.prototype.toISOString of a valid date (years 0 to 9999)
ToISOString(date) ==
    PadStart(NatToString(date.year), 4, "0") \o <<"-">>
    \o PadStart(NatToString(date.month), 2, "0") \o <<"-">>
    \o PadStart(NatToString(date.day), 2, "0") \o <<"T">>
    \o PadStart(NatToString(date.hours), 2, "0") \o <<":">>
    \o PadStart(NatToString(date.minutes), 2, "0") \o <<":">>
    \o PadStart(NatToString(date.seconds), 2, "0") \o <<".", "0", "0", "0", "Z">>

\* lines 147-160; now is what new Date() reads from the clock.  toISOString
\* throws a RangeError on an invalid date, which line 154 catches
FormatDateHandler(date, format, now) ==
    LET inputDate == IF ArgTruthy(date) THEN ParseDate(date.value) ELSE now
    IN  IF ArgTruthy(format)
        THEN TextResult(<<[template |-> "${formattedDate}",
                           formattedDate |-> formatDate(inputDate, format.value)]>>)
        ELSE IF inputDate.valid
        THEN TextResult(<<[template |-> "${formattedDate}",
                           formattedDate |-> ToISOString(inputDate)]>>)
        ELSE TextResult(<<[template |-> "Error formatting date: ${errorMessage}",
                           errorMessage |-> "Invalid time value"]>>)

(***************************************************************************)
(* The synchronous tools as actions.  An async handler without await runs  *)
(* to its return in one step.                                              *)
(***************************************************************************)
ServedResult(tool, result) ==
    [tool |-> tool, afterFailure |-> remoteFailed, result |-> result]

Echo(message) ==
    /\ lastResult' = ServedResult("echo", EchoHandler(message))
    /\ UNCHANGED <<GEMINI_API_KEY, loaderVars, calls, remoteFailed, input>>

Calculate(expression, strict) ==
    /\ lastResult' = ServedResult("calculate", CalculateHandler(expression, strict))
    /\ UNCHANGED <<GEMINI_API_KEY, loaderVars, calls, remoteFailed, input>>

Convert(value, fromUnit, toUnit) ==
    /\ lastResult' = ServedResult("convert", ConvertHandler(value, fromUnit, toUnit))
    /\ UNCHANGED <<GEMINI_API_KEY, loaderVars, calls, remoteFailed, input>>

FormatDate(date, format, now) ==
    /\ lastResult' = ServedResult("format-date", FormatDateHandler(date, format, now))
    /\ UNCHANGED <<GEMINI_API_KEY, loaderVars, calls, remoteFailed, input>>

(***************************************************************************)
(* format-date alone, on the dates of DateStrings and the patterns built   *)
(* from at most MaxFormatParts of FormatParts.                             *)
(***************************************************************************)
MaxFormatParts == 2

FormatParts ==
    { <<"Y", "Y", "Y", "Y">>, <<"M", "M">>, <<"D", "D">>, <<"H", "H">>,
      <<"m", "m">>, <<"s", "s">>, <<"-">> }

Formats ==
    { Absent } \cup { Given(Flatten(ps)) : ps \in SeqsUpTo(FormatParts, MaxFormatParts) }

ValidDateStrings ==
    { <<"2", "0", "2", "4", "-", "0", "1", "-", "1", "5", "T",
        "1", "0", ":", "3", "0", ":", "0", "0">>,
      <<"1", "9", "9", "9", "-", "1", "2", "-", "3", "1">> }

InvalidDateStrings ==
    { <<"a", "b", "c">>,
      <<"n", "o", "t", "-", "a", "-", "d", "a", "t", "e">>,
      <<"2", "0", "2", "4", "-", "1", "3", "-", "0", "1">> }

DateStrings == ValidDateStrings \cup InvalidDateStrings \cup { <<>> }

Dates == { Absent } \cup { Given(s) : s \in DateStrings }

Clocks ==
    { [valid |-> TRUE, year |-> 2026, month |-> 3, day |-> 9,
       hours |-> 7, minutes |-> 5, seconds |-> 0] }

(***************************************************************************)
(* calculate alone, on every string of at most MaxExprLen characters of    *)
(* ExprChars, in strict and in sloppy code.                                *)
(***************************************************************************)
MaxExprLen == 3

ExprChars == { "a", " ", "0", "1", "2", ".", "+", "-", "*", "/", "(", ")" }

Expressions == SeqsUpTo(ExprChars, MaxExprLen)

(***************************************************************************)
(* convert alone, on every pair of unit names of ConvertUnits.             *)
(***************************************************************************)
MaxValue == 2

ConvertValues == (-MaxValue)..MaxValue \cup { -40, 100 }

ConvertUnits ==
    OwnFromUnits \cup { "kelvin", "", "Celsius" }
    \cup ObjectPrototypeFunctions \cup FunctionOwnStrings \cup FunctionOwnNumbers
    \cup FunctionPrototypeFunctions \cup { "__proto__" }

(***************************************************************************)
(* nl-to-sql, lines 177-224.  The handler suspends at the two awaits of    *)
(* lines 207 and 208, so an invocation is three steps; the remote client   *)
(* may fail at each of its four uses.                                      *)
(***************************************************************************)
\* lines 180-182
KeyMissingText ==
    [template |-> "Error: GEMINI_API_KEY is not set in environment variables. The nl-to-sql tool cannot function without it."]

\* lines 186-188
SchemasNotLoadedText ==
    [template |-> "Error: Database schemas not loaded. Please ensure SQL schema files exist in the app/schemas directory."]

\* a handler without the credential check of line 179
NoCredentialUnchecked(key) == FALSE

\* line 179: !GEMINI_API_KEY
NoCredential(key) == key = ""

\* a handler without the schema check of line 185
NoSchemasUnchecked(mapping) == FALSE

\* line 185: Object.keys(databaseSchemas).length === 0
NoSchemas(mapping) == Size(mapping) = 0

\* lines 194-204: the prompt, as the sequence of the pieces appended to it
PromptText(mapping, query) ==
    <<[template |-> "You are a SQL expert that converts natural language queries to precise SQL. "],
      [template |-> "Based on the following database schema:\n\n"]>>
    \o [i \in 1..Len(mapping) |->
          [template |-> "Table: ${tableName}\n${ddl}\n\n",
           tableName |-> mapping[i].key, ddl |-> mapping[i].value]]
    \o <<[template |-> "Convert this natural language query to valid SQL:\n\"${query}\"\n\n",
          query |-> query],
         [template |-> "Respond only with the SQL query, no explanation or other text."]>>

IsSpace(c) == c \in { " ", "\n", "\t" }

\* String.prototype.trim
RECURSIVE TrimStart(_)
TrimStart(s) == IF s # <<>> /\ IsSpace(Head(s)) THEN TrimStart(Tail(s)) ELSE s

RECURSIVE TrimEnd(_)
TrimEnd(s) ==
    IF s # <<>> /\ IsSpace(s[Len(s)]) THEN TrimEnd(SubSeq(s, 1, Len(s) - 1)) ELSE s

Trim(s) == TrimEnd(TrimStart(s))

\* a catch block that rethrows: the fault leaves the handler
NlToSqlCatchRethrows(error) == [fault |-> TRUE, content |-> <<>>]

\* lines 217-223: the catch block; error names the use of the client that threw
NlToSqlCatch(error) ==
    TextResult(<<[template |-> "Error generating SQL from natural language: ${errorMessage}",
                  errorMessage |-> error]>>)

\* lines 211-216
NlToSqlSuccess(text, query) ==
    TextResult(<<[template |-> "${sqlQuery}", sqlQuery |-> Trim(text)],
                 [template |-> "\n\nGenerated from natural language query: ${query}",
                  query |-> query]>>)

NewCall ==
    [pc |-> "new", query |-> "", afterFailure |-> FALSE, emptyAtInvoke |-> FALSE,
     schemasReadAt |-> "none", modelRequests |-> 0, generateCalls |-> 0,
     failedAt |-> "none", prompt |-> <<>>, result |-> TextResult(<<>>)]

Returned(call, result) == [call EXCEPT !.pc = "returned", !.result = result]

Caught(call, stage) ==
    [Returned(call, NlToSqlCatch(stage)) EXCEPT !.failedAt = stage]

\* lines 177-207: from the call of the handler to the await of generateContent
NlToSqlInvoke(i, query) ==
    /\ calls[i].pc = "new"
    /\ \A j \in 1..(i - 1) : calls[j].pc # "new"
    /\ LET call == [calls[i] EXCEPT !.query = query,
                                    !.afterFailure = remoteFailed,
                                    !.emptyAtInvoke = Size(databaseSchemas) = 0]
           read == [call EXCEPT !.schemasReadAt = loadPc]
           asked == [read EXCEPT !.modelRequests = 1]
       IN  IF NoCredential(GEMINI_API_KEY)
           THEN /\ calls' = [calls EXCEPT ![i] = Returned(call, TextResult(<<KeyMissingText>>))]
                /\ UNCHANGED remoteFailed
           ELSE IF NoSchemas(databaseSchemas)
           THEN /\ calls' = [calls EXCEPT ![i] = Returned(read, TextResult(<<SchemasNotLoadedText>>))]
                /\ UNCHANGED remoteFailed
           ELSE \/ /\ calls' = [calls EXCEPT ![i] = Caught(asked, "getGenerativeModel")]
                   /\ remoteFailed' = TRUE
                \/ /\ calls' = [calls EXCEPT ![i] =
                                  [asked EXCEPT !.pc = "awaitGenerate",
                                                !.generateCalls = 1,
                                                !.prompt = PromptText(databaseSchemas, query)]]
                   /\ UNCHANGED remoteFailed
    /\ UNCHANGED <<GEMINI_API_KEY, loaderVars, input, lastResult>>

\* a handler that empties the module-level mapping once its prompt is sent
NlToSqlGenerateSettledDroppingSchemas(i) ==
    /\ calls[i].pc = "awaitGenerate"
    /\ calls' = [calls EXCEPT ![i].pc = "awaitResponse"]
    /\ databaseSchemas' = EmptyRecord
    /\ UNCHANGED <<GEMINI_API_KEY, dirFiles, readdirFails, unreadable, loadPc, loadIdx,
                   schemas, loadResult, loadFailed, readOk, storeCount,
                   remoteFailed, input, lastResult>>

\* line 207 settles
NlToSqlGenerateSettled(i) ==
    /\ calls[i].pc = "awaitGenerate"
    /\ \/ /\ calls' = [calls EXCEPT ![i] = Caught(calls[i], "generateContent")]
          /\ remoteFailed' = TRUE
       \/ /\ calls' = [calls EXCEPT ![i].pc = "awaitResponse"]
          /\ UNCHANGED remoteFailed
    /\ UNCHANGED <<GEMINI_API_KEY, loaderVars, input, lastResult>>

\* line 208 settles; lines 209-216
NlToSqlResponseSettled(i, text) ==
    /\ calls[i].pc = "awaitResponse"
    /\ \/ /\ \E stage \in { "response", "text" } :
               calls' = [calls EXCEPT ![i] = Caught(calls[i], stage)]
          /\ remoteFailed' = TRUE
       \/ /\ calls' = [calls EXCEPT ![i] =
                         Returned(calls[i], NlToSqlSuccess(text, calls[i].query))]
          /\ UNCHANGED remoteFailed
    /\ UNCHANGED <<GEMINI_API_KEY, loaderVars, input, lastResult>>

(***************************************************************************)
(* The server: the startup load interleaved with invocations of the tools. *)
(***************************************************************************)
ServerDirectories ==
    { <<>>, << <<"a">> \o SqlExt >>, << <<"a">>, <<"a">> \o SqlExt >>,
      << <<"a">> \o SqlExt, <<"a", "a">> \o SqlExt >> }

Queries == { "List projects ending this year", "" }

CompletionTexts == { <<" ", "S", "E", "L", "E", "C", "T", " ", "1", "\n">> }

ServerMessages == { "hello", "" }

ServerExpressions == { <<"2", "+", "2">>, <<"a", "b", "c">> }

ServerConversions == { <<0, "celsius", "fahrenheit">>, <<10, "celsius", "kelvin">> }

ServerDates == { Absent, Given(<<"a", "b", "c">>) }

ServerNow == CHOOSE now \in Clocks : TRUE

NlToSqlStart == \E i \in 1..MaxCalls, query \in Queries : NlToSqlInvoke(i, query)

NlToSqlGenerated == \E i \in 1..MaxCalls : NlToSqlGenerateSettled(i)

NlToSqlResponded ==
    \E i \in 1..MaxCalls, text \in CompletionTexts : NlToSqlResponseSettled(i, text)

ServeEcho == \E message \in ServerMessages : Echo(message)

ServeCalculate == \E expression \in ServerExpressions : Calculate(expression, TRUE)

ServeConvert == \E c \in ServerConversions : Convert(c[1], c[2], c[3])

ServeFormatDate == \E date \in ServerDates : FormatDate(date, Absent, ServerNow)

\* a process whose schema directory is empty and whose load has been stored
InitLoaded ==
    /\ dirFiles = <<>>
    /\ readdirFails = FALSE
    /\ unreadable = {}
    /\ loadPc = "stored"
    /\ loadIdx = 1
    /\ schemas = EmptyRecord
    /\ loadResult = EmptyRecord
    /\ loadFailed = FALSE
    /\ readOk = {}
    /\ databaseSchemas = EmptyRecord
    /\ storeCount = 1

NoCalls == [i \in 1..MaxCalls |-> NewCall]

NoInput == [tool |-> "none"]

NoResult == [tool |-> "none"]

InitLoaderSpec ==
    /\ GEMINI_API_KEY = "key"
    /\ InitLoader(Directories)
    /\ calls = NoCalls
    /\ remoteFailed = FALSE
    /\ input = NoInput
    /\ lastResult = NoResult

NextLoader ==
    \/ LoadReaddirSettled
    \/ LoadReadFileSettled
    \/ LoadThen

SpecLoader == InitLoaderSpec /\ [][NextLoader]_vars

InitConvert ==
    /\ GEMINI_API_KEY = "key"
    /\ InitLoaded
    /\ calls = NoCalls
    /\ remoteFailed = FALSE
    /\ input \in [tool : {"convert"}, value : ConvertValues,
                  fromUnit : ConvertUnits, toUnit : ConvertUnits]
    /\ lastResult = NoResult

ApplyConvert ==
    /\ input.tool = "convert"
    /\ Convert(input.value, input.fromUnit, input.toUnit)

SpecConvert == InitConvert /\ [][ApplyConvert]_vars


InitDate ==
    /\ GEMINI_API_KEY = "key"
    /\ InitLoaded
    /\ calls = NoCalls
    /\ remoteFailed = FALSE
    /\ input \in [tool : {"format-date"}, date : Dates, format : Formats, now : Clocks]
    /\ lastResult = NoResult

ApplyFormatDate ==
    /\ input.tool = "format-date"
    /\ FormatDate(input.date, input.format, input.now)

SpecDate == InitDate /\ [][ApplyFormatDate]_vars


InitCalc ==
    /\ GEMINI_API_KEY = "key"
    /\ InitLoaded
    /\ calls = NoCalls
    /\ remoteFailed = FALSE
    /\ input \in [tool : {"calculate"}, expression : Expressions, strict : BOOLEAN]
    /\ lastResult = NoResult

ApplyCalculate ==
    /\ input.tool = "calculate"
    /\ Calculate(input.expression, input.strict)

SpecCalc == InitCalc /\ [][ApplyCalculate]_vars


Init ==
    /\ GEMINI_API_KEY \in { "", "key" }
    /\ InitLoader(ServerDirectories)
    /\ calls = NoCalls
    /\ remoteFailed = FALSE
    /\ input = NoInput
    /\ lastResult = NoResult

Next ==
    \/ LoadReaddirSettled
    \/ LoadReadFileSettled
    \/ LoadThen
    \/ NlToSqlStart
    \/ NlToSqlGenerated
    \/ NlToSqlResponded
    \/ ServeEcho
    \/ ServeCalculate
    \/ ServeConvert
    \/ ServeFormatDate

Spec == Init /\ [][Next]_vars

(***************************************************************************)
(* The claims.                                                             *)
(***************************************************************************)
\* the result is one text segment built from the template of text
SingleText(result, text) ==
    /\ ~result.fault
    /\ Len(result.content) = 1
    /\ result.content[1].template = text.template

Invoked == { i \in 1..MaxCalls : calls[i].pc # "new" }

\* C1, as stated: every nl-to-sql invocation made while the schema mapping holds
\* zero entries returns the 'Database schemas not loaded' text and never invokes
\* the remote client.
C1_EmptyMappingSaysNotLoaded ==
    \A i \in Invoked :
        calls[i].emptyAtInvoke =>
            /\ calls[i].pc = "returned"
            /\ SingleText(calls[i].result, SchemasNotLoadedText)
            /\ calls[i].generateCalls = 0

\* C1, amended: an nl-to-sql invocation made while the schema mapping holds zero
\* entries never invokes the remote client; it returns the 'Database schemas not
\* loaded' text when the credential is configured, and the GEMINI_API_KEY text
\* when it is not.
C1_EmptyMappingNeverCallsRemote ==
    \A i \in Invoked :
        calls[i].emptyAtInvoke =>
            /\ calls[i].pc = "returned"
            /\ calls[i].modelRequests = 0
            /\ calls[i].generateCalls = 0
            /\ IF GEMINI_API_KEY = ""
               THEN SingleText(calls[i].result, KeyMissingText)
               ELSE SingleText(calls[i].result, SchemasNotLoadedText)

C1_Witness ==
    \E i \in Invoked :
        /\ calls[i].emptyAtInvoke
        /\ GEMINI_API_KEY # ""
        /\ calls[i].pc = "returned"
        /\ SingleText(calls[i].result, SchemasNotLoadedText)

\* C2: every nl-to-sql invocation made while GEMINI_API_KEY is empty returns the
\* fixed text naming GEMINI_API_KEY and never invokes the remote client, whatever
\* the schema mapping and the query.
C2_NoCredentialNeverCallsRemote ==
    \A i \in Invoked :
        GEMINI_API_KEY = "" =>
            /\ calls[i].pc = "returned"
            /\ SingleText(calls[i].result, KeyMissingText)
            /\ calls[i].modelRequests = 0
            /\ calls[i].generateCalls = 0
            /\ calls[i].failedAt = "none"

C2_Witness ==
    \E i, j \in Invoked :
        /\ GEMINI_API_KEY = ""
        /\ ~calls[i].emptyAtInvoke
        /\ calls[i].pc = "returned"
        /\ calls[j].query # calls[i].query

RemoteStages == { "getGenerativeModel", "generateContent", "response", "text" }

NormalTemplates ==
    { KeyMissingText.template, SchemasNotLoadedText.template, "${sqlQuery}" }

\* C3: a failure of the remote completion call (at getGenerativeModel,
\* generateContent, the awaited response or its text) ends the invocation with the
\* single text 'Error generating SQL from natural language: ...' after one pass
\* through the client, generateContent invoked at most once; no fault leaves a
\* handler, and the invocations of any tool made after the failure are served as
\* they would have been without it.
C3_RemoteFailureIsInBand ==
    /\ \A i \in Invoked :
         /\ calls[i].pc = "returned" => ~calls[i].result.fault
         /\ calls[i].failedAt # "none" =>
              /\ calls[i].failedAt \in RemoteStages
              /\ calls[i].pc = "returned"
              /\ Len(calls[i].result.content) = 1
              /\ calls[i].result.content[1].template =
                     "Error generating SQL from natural language: ${errorMessage}"
              /\ calls[i].result.content[1].errorMessage = calls[i].failedAt
              /\ calls[i].modelRequests = 1
              /\ calls[i].generateCalls =
                     (IF calls[i].failedAt = "getGenerativeModel" THEN 0 ELSE 1)
         /\ calls[i].afterFailure /\ calls[i].pc = "returned" /\ calls[i].failedAt = "none" =>
              calls[i].result.content[1].template \in NormalTemplates
    /\ lastResult.tool # "none" =>
         /\ ~lastResult.result.fault
         /\ Len(lastResult.result.content) = 1

C3_Witness ==
    /\ \E i, j \in Invoked :
         /\ calls[i].failedAt = "text"
         /\ calls[j].afterFailure
         /\ calls[j].pc = "returned"
         /\ Len(calls[j].result.content) = 2
         /\ calls[j].result.content[1].template = "${sqlQuery}"
    /\ lastResult.tool = "calculate"
    /\ lastResult.afterFailure

\* the schema directory lists a definition file, and every read of the load succeeds
ReadableSchemas ==
    /\ ~readdirFails
    /\ unreadable = {}
    /\ \E k \in 1..Len(dirFiles) : IsDefinitionFile(dirFiles[k])

\* C9: no nl-to-sql invocation reads the schema mapping before the startup load
\* has completed and been stored, so with a non-empty readable schema directory
\* and a configured credential no invocation gets the 'Database schemas not
\* loaded' text.
C9_LoadedBeforeRequests ==
    \A i \in Invoked :
        /\ calls[i].schemasReadAt \in { "none", "stored" }
        /\ ReadableSchemas /\ GEMINI_API_KEY # "" /\ calls[i].pc = "returned" =>
               calls[i].result.content[1].template # SchemasNotLoadedText.template

\* C10: the module-level mapping is written at most once, by the completion of
\* the startup load, and no step of any tool invocation changes it: once the load
\* is stored, the mapping stays equal to the loaded value.
C10_MappingWrittenOnce ==
    [][/\ databaseSchemas' # databaseSchemas =>
            loadPc = "resolved" /\ loadPc' = "stored" /\ databaseSchemas' = loadResult
       /\ loadPc = "stored" =>
            databaseSchemas' = databaseSchemas /\ databaseSchemas' = loadResult'
       /\ storeCount' <= 1]_vars

C10_Witness ==
    /\ loadPc = "stored"
    /\ Size(databaseSchemas) = 2
    /\ storeCount = 1
    /\ \E i, j \in Invoked :
         /\ calls[i].failedAt # "none"
         /\ calls[j].pc = "returned"
         /\ calls[j].failedAt = "none"
         /\ calls[j].schemasReadAt = "stored"
         /\ Len(calls[j].result.content) = 2
    /\ lastResult.tool = "format-date"

DefinitionFiles == { dirFiles[k] : k \in { j \in 1..Len(dirFiles) : IsDefinitionFile(dirFiles[j]) } }

HoldsFile(mapping, file) ==
    \E k \in 1..Len(mapping) : mapping[k].value = FileContent(file)

\* C5, as stated: if reading fails for some definition file, the load still
\* completes and the mapping contains every definition file that was read.
C5_KeepsWhatWasRead ==
    loadPc = "stored" /\ loadFailed /\ ~readdirFails =>
        \A file \in readOk : HoldsFile(databaseSchemas, file)

\* C5, amended: if reading the directory or any definition file fails, the load
\* still completes, and the resulting mapping is empty, also when other
\* definition files had been read before the failure.
C5_FailedLoadIsEmpty ==
    loadFailed =>
        /\ loadPc \in { "resolved", "stored" }
        /\ loadResult = EmptyRecord
        /\ databaseSchemas = EmptyRecord

C5_Witness ==
    /\ loadPc = "stored"
    /\ loadFailed
    /\ readOk # {}

\* the file name without its last four characters
WithoutExtension(file) == SubSeq(file, 1, Len(file) - Len(SqlExt))

\* C8: the loaded mapping has exactly one entry per file whose name ends in
\* '.sql', none for any other file, and each entry's key is the file name with
\* only its trailing '.sql' removed.
C8_OneEntryPerDefinitionFile ==
    loadPc = "stored" /\ ~loadFailed =>
        /\ Size(databaseSchemas) = Cardinality(DefinitionFiles)
        /\ Keys(databaseSchemas) = { WithoutExtension(file) : file \in DefinitionFiles }
        /\ \A k \in 1..Len(databaseSchemas) :
             \E file \in DefinitionFiles :
                /\ databaseSchemas[k].key = WithoutExtension(file)
                /\ databaseSchemas[k].value = FileContent(file)

\* C4: a format-date invocation whose date argument is given and cannot be parsed
\* returns the text 'Error formatting date: ...', with and without a format.
C4_UnparsableDateIsAnError ==
    /\ lastResult.tool = "format-date"
    /\ ArgTruthy(input.date)
    /\ ~ParseDate(input.date.value).valid
    => lastResult.result.content[1].template = "Error formatting date: ${errorMessage}"

\* C6: for every pair of units that is not one of the six supported pairs,
\* convert returns 'Error: Conversion from <fromUnit> to <toUnit> is not
\* supported.' naming both units.
C6_UnsupportedPairIsAnError ==
    /\ lastResult.tool = "convert"
    /\ <<input.fromUnit, input.toUnit>> \notin SupportedPairs
    => /\ lastResult.result.content[1].template =
              "Error: Conversion from ${fromUnit} to ${toUnit} is not supported."
       /\ lastResult.result.content[1].fromUnit = input.fromUnit
       /\ lastResult.result.content[1].toUnit = input.toUnit

\* C7: a calculate invocation of which nothing is left after the stripping, or
\* whose expression evaluates to an undefined value, returns the text 'Error:
\* Could not evaluate expression ...' and never a 'Result: ...' text.
C7_NothingToEvaluateIsAnError ==
    lastResult.tool = "calculate" =>
        /\ Sanitize(input.expression) = <<>> =>
               lastResult.result.content[1].template =
                   "Error: Could not evaluate expression '${expression}'"
        /\ lastResult.result.content[1].template = "Result: ${result}" =>
               lastResult.result.content[1].result.t # "undefined"
=============================================================================
